---------------------------- MODULE Spec2Model ----------------------------
(***************************************************************************)
(* Desk-availability computation of the admin booking form                 *)
(* (src/src/components/AdminBookingForm.tsx): convertDurationToHours,      *)
(* getHourlySlotsForBooking and the body of fetchBookedSlots (matrix       *)
(* initialisation, the fold over the fetched bookings, the feasibility     *)
(* scan over the start slots).                                             *)
(*                                                                         *)
(* The component fixes the grid to ten labels and totalDesks to 6; the     *)
(* functions themselves take the grid (and its length) as a parameter, so  *)
(* the model runs them on every prefix of the ten-label grid up to         *)
(* MaxSlots and on every desk count up to MaxDesks.                        *)
(***************************************************************************)
EXTENDS Integers, Sequences, FiniteSets, TLC

\* ------------------------------------------------------------------ bounds
MaxSlots == 3       \* longest grid explored
MaxDesks == 2       \* largest totalDesks explored
MaxBookings == 2    \* most rows folded one by one (Spec)
MaxRows == 1        \* most rows of a result checked whole (SpecData)
ScenarioDesks == 3  \* largest totalDesks of the ten-slot scenarios
MaxGridLength == 9  \* longest grid of the checks without rows (SpecGrids)
OrderSlots == 2     \* longest grid of the two builds in two orders (SpecOrder)
OrderDesks == 2     \* largest totalDesks there
MaxOverlap == 2     \* most availability checks in flight (SpecOverlap)
FormSlots == 2      \* grid length of the form (SpecForm)
FormDesks == 1      \* totalDesks of the form (SpecForm)
MaxStore == 1       \* most rows of the bookings table (SpecForm)
MaxFetches == 1     \* most availability checks in flight (SpecForm)

\* ------------------------------------------------------------- input data
\* setHourlySlots([...]) in fetchWorkspaceTypes
AllSlotLabels ==
    << "08:00 AM", "09:00 AM", "10:00 AM", "11:00 AM", "12:00 PM",
       "01:00 PM", "02:00 PM", "03:00 PM", "04:00 PM", "05:00 PM" >>

\* a label that is in no grid
UnknownSlot == "06:00 PM"

\* the values of the duration <select>, plus one code the switch does not know
KnownDurations == {"1-hour", "2-hours", "4-hours", "1-day", "1-week", "1-month"}
UnknownDuration == "2-days"
DurationCodes == KnownDurations \cup {UnknownDuration}

\* desk_number is nullable: <<>> is null, <<k>> is the integer k
NullDesk == << >>

Grids == { SubSeq(AllSlotLabels, 1, n) : n \in 0..MaxSlots }

Range(s) == { s[i] : i \in 1..Len(s) }

\* the rows the bookings query can return for a grid and a desk count
Bookings(slots, desks) ==
    [ time_slot : Range(slots) \cup {UnknownSlot},
      duration : DurationCodes,
      desk_number : {NullDesk} \cup { <<k>> : k \in (-1)..(desks + 1) } ]

NoBooking == [ time_slot |-> "", duration |-> "", desk_number |-> NullDesk ]

Min(a, b) == IF a <= b THEN a ELSE b

\* --------------------------------------------------------- pure functions
\* a slip: the week counted as one day
convertDurationToHours_WeekAsDay(duration, totalSlots) ==
    CASE duration = "1-hour" -> 1
      [] duration = "2-hours" -> 2
      [] duration = "4-hours" -> 4
      [] duration = "1-day" -> totalSlots
      [] duration = "1-week" -> totalSlots
      [] duration = "1-month" -> totalSlots * 30
      [] OTHER -> 1

\* a slip: the month counted as one day
convertDurationToHours_MonthAsDay(duration, totalSlots) ==
    CASE duration = "1-hour" -> 1
      [] duration = "2-hours" -> 2
      [] duration = "4-hours" -> 4
      [] duration = "1-day" -> totalSlots
      [] duration = "1-week" -> totalSlots * 7
      [] duration = "1-month" -> totalSlots
      [] OTHER -> 1

convertDurationToHours(duration, totalSlots) ==
    CASE duration = "1-hour" -> 1
      [] duration = "2-hours" -> 2
      [] duration = "4-hours" -> 4
      [] duration = "1-day" -> totalSlots
      [] duration = "1-week" -> totalSlots * 7
      [] duration = "1-month" -> totalSlots * 30
      [] OTHER -> 1

\* Array.prototype.indexOf: the 0-based index of the first element equal to
\* x, scanning from the front, or -1
RECURSIVE IndexFrom(_, _, _)
IndexFrom(arr, x, k) ==
    IF k > Len(arr) THEN -1
    ELSE IF arr[k] = x THEN k - 1
    ELSE IndexFrom(arr, x, k + 1)

indexOf(arr, x) == IndexFrom(arr, x, 1)

\* Array.prototype.slice(begin, end) for 0 <= begin: the elements at the
\* 0-based indices begin .. min(end, length) - 1, empty when there are none
slice(arr, begin, end) == SubSeq(arr, begin + 1, Min(end, Len(arr)))


\* a slip: the span starts one slot late
getHourlySlotsForBooking_LateStart(startSlot, durationHours, allSlots) ==
    LET startIndex == indexOf(allSlots, startSlot)
    IN  IF startIndex = -1 THEN << >>
        ELSE slice(allSlots, startIndex + 1, startIndex + 1 + durationHours)

\* a slip: a span that runs past the last slot continues at the first one
getHourlySlotsForBooking_Wrap(startSlot, durationHours, allSlots) ==
    LET startIndex == indexOf(allSlots, startSlot)
        n == Len(allSlots)
    IN  IF startIndex = -1 THEN << >>
        ELSE [ j \in 1..Min(durationHours, n) |->
                 allSlots[((startIndex + j - 1) % n) + 1] ]

\* a slip: the "not found" test is missing and -1 is used as the first index
getHourlySlotsForBooking_NoGuard(startSlot, durationHours, allSlots) ==
    LET startIndex == indexOf(allSlots, startSlot)
    IN  IF startIndex = -1 THEN slice(allSlots, 0, durationHours)
        ELSE slice(allSlots, startIndex, startIndex + durationHours)

\* a slip: the end index is taken as inclusive, one slot too many
getHourlySlotsForBooking_OneTooMany(startSlot, durationHours, allSlots) ==
    LET startIndex == indexOf(allSlots, startSlot)
    IN  IF startIndex = -1 THEN << >>
        ELSE slice(allSlots, startIndex, startIndex + durationHours + 1)

getHourlySlotsForBooking(startSlot, durationHours, allSlots) ==
    LET startIndex == indexOf(allSlots, startSlot)
    IN  IF startIndex = -1 THEN << >>
        ELSE slice(allSlots, startIndex, startIndex + durationHours)

\* ------------------------------------------------- the availability matrix
\* hourlySlots.forEach(slot => matrix.set(slot, new Array(totalDesks).fill(true)))
InitMatrix(slots, desks) ==
    [ slot \in Range(slots) |-> [ d \in 1..desks |-> TRUE ] ]

\* a slip: an unassigned booking takes the first desk only
MarkSlot_NullTakesFirstDesk(matrix, slot, desk_number, desks) ==
    IF slot \notin DOMAIN matrix THEN matrix
    ELSE IF desk_number # NullDesk /\ desk_number[1] >= 1 /\ desk_number[1] <= desks
         THEN [ matrix EXCEPT ![slot][desk_number[1]] = FALSE ]
         ELSE [ matrix EXCEPT ![slot] =
                  [ d \in 1..desks |-> IF d = 1 THEN FALSE ELSE matrix[slot][d] ] ]

\* a slip: an assigned booking blocks the whole slot
MarkSlot_AssignedFillsRow(matrix, slot, desk_number, desks) ==
    IF slot \notin DOMAIN matrix THEN matrix
    ELSE [ matrix EXCEPT ![slot] = [ d \in 1..desks |-> FALSE ] ]

\* a slip: the lower bound of the desk test is missing; availability[-1] and
\* availability[-2] are properties of the array, not flags
MarkSlot_NoLowerBound(matrix, slot, desk_number, desks) ==
    IF slot \notin DOMAIN matrix THEN matrix
    ELSE IF desk_number # NullDesk /\ desk_number[1] <= desks
         THEN IF desk_number[1] >= 1
              THEN [ matrix EXCEPT ![slot][desk_number[1]] = FALSE ]
              ELSE matrix
         ELSE [ matrix EXCEPT ![slot] = [ d \in 1..desks |-> FALSE ] ]

\* a slip: the upper bound of the desk test is missing; writing past the last
\* index lengthens the array
MarkSlot_NoUpperBound(matrix, slot, desk_number, desks) ==
    IF slot \notin DOMAIN matrix THEN matrix
    ELSE IF desk_number # NullDesk /\ desk_number[1] >= 1
         THEN IF desk_number[1] <= Len(matrix[slot])
              THEN [ matrix EXCEPT ![slot][desk_number[1]] = FALSE ]
              ELSE [ matrix EXCEPT ![slot] =
                       [ d \in 1..desk_number[1] |->
                           IF d <= Len(matrix[slot]) THEN matrix[slot][d]
                           ELSE d # desk_number[1] ] ]
         ELSE [ matrix EXCEPT ![slot] = [ d \in 1..desks |-> FALSE ] ]

\* a slip: an assigned booking stores a fresh row instead of clearing a flag
MarkSlot_FreshRow(matrix, slot, desk_number, desks) ==
    IF slot \notin DOMAIN matrix THEN matrix
    ELSE IF desk_number # NullDesk /\ desk_number[1] >= 1 /\ desk_number[1] <= desks
         THEN [ matrix EXCEPT ![slot] = [ d \in 1..desks |-> d # desk_number[1] ] ]
         ELSE [ matrix EXCEPT ![slot] = [ d \in 1..desks |-> FALSE ] ]

\* a slip: the flag is flipped instead of cleared
MarkSlot_Toggle(matrix, slot, desk_number, desks) ==
    IF slot \notin DOMAIN matrix THEN matrix
    ELSE IF desk_number # NullDesk /\ desk_number[1] >= 1 /\ desk_number[1] <= desks
         THEN [ matrix EXCEPT ![slot][desk_number[1]] = ~matrix[slot][desk_number[1]] ]
         ELSE [ matrix EXCEPT ![slot] = [ d \in 1..desks |-> FALSE ] ]

\* a slip: the desk number is used as the 0-based index
MarkSlot_DeskOffByOne(matrix, slot, desk_number, desks) ==
    IF slot \notin DOMAIN matrix THEN matrix
    ELSE IF desk_number # NullDesk /\ desk_number[1] >= 1 /\ desk_number[1] <= desks
         THEN [ matrix EXCEPT ![slot] =
                  [ d \in 1..(IF desk_number[1] = desks THEN desks + 1 ELSE desks) |->
                      IF d = desk_number[1] + 1 THEN FALSE ELSE matrix[slot][d] ] ]
         ELSE [ matrix EXCEPT ![slot] = [ d \in 1..desks |-> FALSE ] ]

\* a slip: an unassigned booking takes the first desk still free at the slot
MarkSlot_NullTakesFirstFreeDesk(matrix, slot, desk_number, desks) ==
    IF slot \notin DOMAIN matrix THEN matrix
    ELSE IF desk_number # NullDesk /\ desk_number[1] >= 1 /\ desk_number[1] <= desks
         THEN [ matrix EXCEPT ![slot][desk_number[1]] = FALSE ]
         ELSE IF \E d \in 1..desks : matrix[slot][d]
              THEN LET first == CHOOSE d \in 1..desks :
                                  /\ matrix[slot][d]
                                  /\ \A e \in 1..(d - 1) : ~matrix[slot][e]
                   IN  [ matrix EXCEPT ![slot][first] = FALSE ]
              ELSE matrix

\* the callback of occupiedSlots.forEach: one slot of one booking
MarkSlot(matrix, slot, desk_number, desks) ==
    IF slot \notin DOMAIN matrix THEN matrix
    ELSE IF desk_number # NullDesk /\ desk_number[1] >= 1 /\ desk_number[1] <= desks
         THEN [ matrix EXCEPT ![slot][desk_number[1]] = FALSE ]
         ELSE [ matrix EXCEPT ![slot] = [ d \in 1..desks |-> FALSE ] ]

\* a slip: only the start slot of a booking is marked
MarkSlots_StartSlotOnly(matrix, occupied, k, desk_number, desks) ==
    IF k > Len(occupied) THEN matrix
    ELSE MarkSlot(matrix, occupied[k], desk_number, desks)

\* occupiedSlots.forEach(...), from the k-th occupied slot on
RECURSIVE MarkSlots(_, _, _, _, _)
MarkSlots(matrix, occupied, k, desk_number, desks) ==
    IF k > Len(occupied) THEN matrix
    ELSE MarkSlots(MarkSlot(matrix, occupied[k], desk_number, desks),
                   occupied, k + 1, desk_number, desks)

\* the slots one fetched booking occupies
OccupiedSlots(b, slots) ==
    getHourlySlotsForBooking(b.time_slot,
                             convertDurationToHours(b.duration, Len(slots)),
                             slots)

\* the callback of data.forEach: one booking folded into the matrix
MarkBooking(matrix, b, slots, desks) ==
    MarkSlots(matrix, OccupiedSlots(b, slots), 1, b.desk_number, desks)

\* data.forEach(...), from the k-th row on
RECURSIVE MarkBookings(_, _, _, _, _)
MarkBookings(matrix, rows, k, slots, desks) ==
    IF k > Len(rows) THEN matrix
    ELSE MarkBookings(MarkBooking(matrix, rows[k], slots, desks),
                      rows, k + 1, slots, desks)

BuildMatrix(rows, slots, desks) ==
    MarkBookings(InitMatrix(slots, desks), rows, 1, slots, desks)

\* --------------------------------------------------- the feasibility scan
\* a slip: only the first slot of the span is looked at
DeskAvailableForAllSlots_FirstSlotOnly(matrix, required, k, deskIndex) ==
    IF k > Len(required) THEN TRUE
    ELSE required[k] \in DOMAIN matrix /\ matrix[required[k]][deskIndex + 1]

\* a slip: a desk counts as available when it is free at one slot of the span
DeskAvailableForAllSlots_AnySlot(matrix, required, k, deskIndex) ==
    \E j \in k..Len(required) :
        required[j] \in DOMAIN matrix /\ matrix[required[j]][deskIndex + 1]

\* for (const slot of requiredSlots) { if (!availability || !availability[deskIndex]) ... break }
RECURSIVE DeskAvailableForAllSlots(_, _, _, _)
DeskAvailableForAllSlots(matrix, required, k, deskIndex) ==
    IF k > Len(required) THEN TRUE
    ELSE IF required[k] \notin DOMAIN matrix \/ ~matrix[required[k]][deskIndex + 1]
         THEN FALSE
         ELSE DeskAvailableForAllSlots(matrix, required, k + 1, deskIndex)

\* a slip: each slot of the span may be free on a different desk
HasAvailableDesk_PerSlot(matrix, required, deskIndex, desks) ==
    \A k \in 1..Len(required) :
        /\ required[k] \in DOMAIN matrix
        /\ \E d \in 1..desks : matrix[required[k]][d]

\* for (let deskIndex = 0; deskIndex < totalDesks; deskIndex++) { ... break }
RECURSIVE HasAvailableDesk(_, _, _, _)
HasAvailableDesk(matrix, required, deskIndex, desks) ==
    IF deskIndex >= desks THEN FALSE
    ELSE IF DeskAvailableForAllSlots(matrix, required, 1, deskIndex) THEN TRUE
    ELSE HasAvailableDesk(matrix, required, deskIndex + 1, desks)

\* a slip: a span cut short by the end of the grid is accepted
StartSlotUnavailable_NoLengthTest(matrix, startSlot, hours, slots, desks) ==
    LET required == getHourlySlotsForBooking(startSlot, hours, slots)
    IN  ~HasAvailableDesk(matrix, required, 0, desks)

\* the callback of hourlySlots.forEach: does startSlot get pushed?
StartSlotUnavailable(matrix, startSlot, hours, slots, desks) ==
    LET required == getHourlySlotsForBooking(startSlot, hours, slots)
    IN  IF Len(required) < hours THEN TRUE
        ELSE ~HasAvailableDesk(matrix, required, 0, desks)

\* a slip: unshift instead of push
RECURSIVE ScanStartSlots_Unshift(_, _, _, _, _, _)
ScanStartSlots_Unshift(matrix, hours, slots, desks, k, acc) ==
    IF k > Len(slots) THEN acc
    ELSE ScanStartSlots_Unshift(matrix, hours, slots, desks, k + 1,
            IF StartSlotUnavailable(matrix, slots[k], hours, slots, desks)
            THEN << slots[k] >> \o acc ELSE acc)

\* hourlySlots.forEach(...), from the k-th start slot on, pushing onto acc
RECURSIVE ScanStartSlots(_, _, _, _, _, _)
ScanStartSlots(matrix, hours, slots, desks, k, acc) ==
    IF k > Len(slots) THEN acc
    ELSE ScanStartSlots(matrix, hours, slots, desks, k + 1,
            IF StartSlotUnavailable(matrix, slots[k], hours, slots, desks)
            THEN Append(acc, slots[k]) ELSE acc)

UnavailableSlots(matrix, hours, slots, desks) ==
    ScanStartSlots(matrix, hours, slots, desks, 1, << >>)

\* ------------------------------------------------- the time-slot options
\* Array.prototype.includes
includes(arr, x) == \E k \in 1..Len(arr) : arr[k] = x

\* hourlySlots.filter(slot => !bookedSlots.includes(slot)), from the k-th on
RECURSIVE FilterFree(_, _, _)
FilterFree(slots, booked, k) ==
    IF k > Len(slots) THEN << >>
    ELSE IF includes(booked, slots[k]) THEN FilterFree(slots, booked, k + 1)
    ELSE << slots[k] >> \o FilterFree(slots, booked, k + 1)

\* the <option>s of the time-slot <select>
TimeSlotOptions(slots, booked) == FilterFree(slots, booked, 1)

\* ------------------------------------------------------------------ state
VARIABLES
    hourlySlots,            \* the slot grid (useState hourlySlots)
    totalDesks,             \* the desk count
    data,                   \* the rows of the bookings query (SpecData)
    rows,                   \* how many rows data.forEach has delivered so far
    booking,                \* the row of the current data.forEach callback
    occupiedSlots,          \* its occupied slots
    deskAvailabilityMatrix, \* slot label -> one boolean per desk
    duration,               \* formData.duration as read by the check
    requestedDurationHours,
    unavailableSlots,       \* the array handed to setBookedSlots
    pc,                     \* where fetchBookedSlots stands
    otherMatrix,            \* the matrix of a second build (SpecExtra)
    extraFolded,            \* has the second build folded its extra row?
    bookings,               \* the rows of the bookings table
    formData,               \* useState formData
    bookedSlots,            \* useState bookedSlots
    checkingAvailability,   \* useState checkingAvailability
    isSubmitting,           \* useState isSubmitting
    fetches,                \* fetchBookedSlots calls awaiting their query
    createArg,              \* the argument of a pending createAdminBooking
    clients                 \* the forms of two clients side by side (SpecRace)

pairVars == << otherMatrix, extraFolded >>

formVars == << bookings, formData, bookedSlots, checkingAvailability,
               isSubmitting, fetches, createArg >>

checkVars == << data, rows, booking, occupiedSlots, deskAvailabilityMatrix,
                duration, requestedDurationHours, unavailableSlots >>

raceVars == << clients >>

vars == << hourlySlots, totalDesks, data, rows, booking, occupiedSlots,
           deskAvailabilityMatrix, duration, requestedDurationHours,
           unavailableSlots, pc, pairVars, formVars, raceVars >>

\* useState({ workspaceType: '', date: '', timeSlot: '', duration: '', ... })
InitialFormData ==
    [ workspaceType |-> "", date |-> "", timeSlot |-> "", duration |-> "" ]

\* the form as mounted, with nothing in flight
FormMounted ==
    /\ formData = InitialFormData
    /\ bookedSlots = << >>
    /\ checkingAvailability = FALSE
    /\ isSubmitting = FALSE
    /\ fetches = << >>
    /\ createArg = << >>

\* two clients
Clients == { 1, 2 }

\* a client's form as mounted: nothing chosen, nothing read
MountedClient ==
    [ stage |-> "filling", formData |-> InitialFormData, bookedSlots |-> << >>,
      snapshot |-> << >> ]

RaceIdle == clients = [ c \in Clients |-> MountedClient ]

\* no form and an empty table
FormIdle ==
    /\ bookings = << >>
    /\ FormMounted
    /\ RaceIdle

\* no second build
PairIdle ==
    /\ otherMatrix = << >>
    /\ extraFolded = FALSE

\* ------------------------------------------- Spec: the loops step by step
\* The query has answered; nothing of the try block has run yet.
Init ==
    /\ hourlySlots \in Grids
    /\ totalDesks \in 1..MaxDesks
    /\ data = << >>
    /\ rows = 0
    /\ booking = NoBooking
    /\ occupiedSlots = << >>
    /\ deskAvailabilityMatrix = << >>
    /\ duration = ""
    /\ requestedDurationHours = 0
    /\ unavailableSlots = << >>
    /\ pc = "start"
    /\ PairIdle
    /\ FormIdle

\* the matrix is created with every desk free at every slot
StartCheck ==
    /\ pc = "start"
    /\ deskAvailabilityMatrix' = InitMatrix(hourlySlots, totalDesks)
    /\ pc' = "fold"
    /\ UNCHANGED << hourlySlots, totalDesks, data, rows, booking, occupiedSlots,
                    duration, requestedDurationHours, unavailableSlots, pairVars >>
    /\ UNCHANGED << formVars, raceVars >>

\* one callback of data.forEach, on whatever row the query returned next
FoldBooking ==
    /\ pc = "fold"
    /\ rows < MaxBookings
    /\ \E b \in Bookings(hourlySlots, totalDesks) :
         /\ booking' = b
         /\ occupiedSlots' = OccupiedSlots(b, hourlySlots)
         /\ deskAvailabilityMatrix' =
                MarkBooking(deskAvailabilityMatrix, b, hourlySlots, totalDesks)
    /\ rows' = rows + 1
    /\ UNCHANGED << hourlySlots, totalDesks, data, duration,
                    requestedDurationHours, unavailableSlots, pc, pairVars >>
    /\ UNCHANGED << formVars, raceVars >>

\* data.forEach is over: the start slots are scanned for the requested
\* duration (a value of the form, read once) and the result is published
Evaluate ==
    /\ pc = "fold"
    /\ \E dur \in DurationCodes :
         LET hours == convertDurationToHours(dur, Len(hourlySlots))
         IN  /\ duration' = dur
             /\ requestedDurationHours' = hours
             /\ unavailableSlots' =
                    UnavailableSlots(deskAvailabilityMatrix, hours,
                                     hourlySlots, totalDesks)
    /\ booking' = NoBooking
    /\ occupiedSlots' = << >>
    /\ pc' = "done"
    /\ UNCHANGED << hourlySlots, totalDesks, data, rows, deskAvailabilityMatrix,
                    pairVars >>
    /\ UNCHANGED << formVars, raceVars >>

Next == StartCheck \/ FoldBooking \/ Evaluate

Spec == Init /\ [][Next]_vars

\* --------------------------- SpecData: the whole check on a fetched result
RECURSIVE SeqsUpTo(_, _)
SeqsUpTo(S, n) ==
    IF n = 0 THEN { << >> }
    ELSE LET shorter == SeqsUpTo(S, n - 1)
         IN  shorter \cup { Append(q, x) : q \in shorter, x \in S }

InitData ==
    /\ hourlySlots \in Grids
    /\ totalDesks \in 1..MaxDesks
    /\ data \in SeqsUpTo(Bookings(hourlySlots, totalDesks), MaxRows)
    /\ rows = 0
    /\ booking = NoBooking
    /\ occupiedSlots = << >>
    /\ deskAvailabilityMatrix = << >>
    /\ duration = ""
    /\ requestedDurationHours = 0
    /\ unavailableSlots = << >>
    /\ pc = "fetched"
    /\ PairIdle
    /\ FormIdle

\* the try block of fetchBookedSlots after the query, start to finish
CheckAvailability ==
    /\ pc = "fetched"
    /\ \E dur \in DurationCodes :
         LET hours == convertDurationToHours(dur, Len(hourlySlots))
             matrix == BuildMatrix(data, hourlySlots, totalDesks)
         IN  /\ duration' = dur
             /\ requestedDurationHours' = hours
             /\ deskAvailabilityMatrix' = matrix
             /\ unavailableSlots' =
                    UnavailableSlots(matrix, hours, hourlySlots, totalDesks)
    /\ rows' = Len(data)
    /\ pc' = "done"
    /\ UNCHANGED << hourlySlots, totalDesks, data, booking, occupiedSlots,
                    pairVars >>
    /\ UNCHANGED << formVars, raceVars >>

NextData == CheckAvailability

SpecData == InitData /\ [][NextData]_vars

\* ------------- SpecExtra: a build and the build of the same rows plus one
\* Two builds run side by side on the same grid and desk count. Every row of
\* the list is folded into both matrices; one extra row, at any place of the
\* list, is folded into the second matrix only.
StartBoth ==
    /\ pc = "start"
    /\ deskAvailabilityMatrix' = InitMatrix(hourlySlots, totalDesks)
    /\ otherMatrix' = InitMatrix(hourlySlots, totalDesks)
    /\ pc' = "fold"
    /\ UNCHANGED << hourlySlots, totalDesks, data, rows, booking, occupiedSlots,
                    duration, requestedDurationHours, unavailableSlots,
                    extraFolded >>
    /\ UNCHANGED << formVars, raceVars >>

FoldBoth ==
    /\ pc = "fold"
    /\ rows < MaxBookings
    /\ \E b \in Bookings(hourlySlots, totalDesks) :
         /\ deskAvailabilityMatrix' =
                MarkBooking(deskAvailabilityMatrix, b, hourlySlots, totalDesks)
         /\ otherMatrix' = MarkBooking(otherMatrix, b, hourlySlots, totalDesks)
    /\ rows' = rows + 1
    /\ UNCHANGED << hourlySlots, totalDesks, data, booking, occupiedSlots,
                    duration, requestedDurationHours, unavailableSlots, pc,
                    extraFolded >>
    /\ UNCHANGED << formVars, raceVars >>

FoldExtra ==
    /\ pc = "fold"
    /\ ~extraFolded
    /\ \E r \in Bookings(hourlySlots, totalDesks) :
         otherMatrix' = MarkBooking(otherMatrix, r, hourlySlots, totalDesks)
    /\ extraFolded' = TRUE
    /\ UNCHANGED << hourlySlots, totalDesks, data, rows, booking, occupiedSlots,
                    deskAvailabilityMatrix, duration, requestedDurationHours,
                    unavailableSlots, pc >>
    /\ UNCHANGED << formVars, raceVars >>

NextExtra == StartBoth \/ FoldBoth \/ FoldExtra

SpecExtra == Init /\ [][NextExtra]_vars

\* ------- SpecOrder: two builds of the same rows, in another order or repeated
\* Two builds run side by side on the same grid and desk count. A row is
\* folded into both matrices (FoldBoth), or two rows are folded in one order
\* into the first matrix and in the other order into the second, or a row is
\* folded once into the first matrix and twice into the second.
FoldSwapped ==
    /\ pc = "fold"
    /\ rows < MaxBookings
    /\ ~extraFolded
    /\ \E a \in Bookings(hourlySlots, totalDesks) :
         \E b \in Bookings(hourlySlots, totalDesks) :
           /\ deskAvailabilityMatrix' =
                  MarkBooking(MarkBooking(deskAvailabilityMatrix, a,
                                          hourlySlots, totalDesks),
                              b, hourlySlots, totalDesks)
           /\ otherMatrix' =
                  MarkBooking(MarkBooking(otherMatrix, b, hourlySlots, totalDesks),
                              a, hourlySlots, totalDesks)
    /\ rows' = rows + 2
    /\ extraFolded' = TRUE
    /\ UNCHANGED << hourlySlots, totalDesks, data, booking, occupiedSlots,
                    duration, requestedDurationHours, unavailableSlots, pc >>
    /\ UNCHANGED << formVars, raceVars >>

FoldTwice ==
    /\ pc = "fold"
    /\ rows < MaxBookings
    /\ ~extraFolded
    /\ \E a \in Bookings(hourlySlots, totalDesks) :
         /\ deskAvailabilityMatrix' =
                MarkBooking(deskAvailabilityMatrix, a, hourlySlots, totalDesks)
         /\ otherMatrix' =
                MarkBooking(MarkBooking(otherMatrix, a, hourlySlots, totalDesks),
                            a, hourlySlots, totalDesks)
    /\ rows' = rows + 1
    /\ extraFolded' = TRUE
    /\ UNCHANGED << hourlySlots, totalDesks, data, booking, occupiedSlots,
                    duration, requestedDurationHours, unavailableSlots, pc >>
    /\ UNCHANGED << formVars, raceVars >>

InitOrder ==
    /\ hourlySlots \in { SubSeq(AllSlotLabels, 1, n) : n \in 0..OrderSlots }
    /\ totalDesks \in 1..OrderDesks
    /\ data = << >>
    /\ rows = 0
    /\ booking = NoBooking
    /\ occupiedSlots = << >>
    /\ deskAvailabilityMatrix = << >>
    /\ duration = ""
    /\ requestedDurationHours = 0
    /\ unavailableSlots = << >>
    /\ pc = "start"
    /\ PairIdle
    /\ FormIdle

NextOrder == StartBoth \/ FoldBoth \/ FoldSwapped \/ FoldTwice

SpecOrder == InitOrder /\ [][NextOrder]_vars

\* ------------------ SpecScenario: the whole check on the ten-slot grid
ScenarioRows ==
    [ time_slot : Range(AllSlotLabels),
      duration : DurationCodes,
      desk_number : { NullDesk, << 1 >> } ]

\* the grid of the component, one fetched row
InitScenario ==
    /\ hourlySlots = AllSlotLabels
    /\ totalDesks \in 1..ScenarioDesks
    /\ data \in { << r >> : r \in ScenarioRows }
    /\ rows = 0
    /\ booking = NoBooking
    /\ occupiedSlots = << >>
    /\ deskAvailabilityMatrix = << >>
    /\ duration = ""
    /\ requestedDurationHours = 0
    /\ unavailableSlots = << >>
    /\ pc = "fetched"
    /\ PairIdle
    /\ FormIdle

SpecScenario == InitScenario /\ [][NextData]_vars

\* ------------- SpecGrids: checks on longer grids, the query returning no row
LongGrids == { SubSeq(AllSlotLabels, 1, n) : n \in 0..MaxGridLength }

InitGrids ==
    /\ hourlySlots \in LongGrids
    /\ totalDesks \in 1..MaxDesks
    /\ data = << >>
    /\ rows = 0
    /\ booking = NoBooking
    /\ occupiedSlots = << >>
    /\ deskAvailabilityMatrix = << >>
    /\ duration = ""
    /\ requestedDurationHours = 0
    /\ unavailableSlots = << >>
    /\ pc = "start"
    /\ PairIdle
    /\ FormIdle

NextGrids == StartCheck \/ Evaluate

SpecGrids == InitGrids /\ [][NextGrids]_vars

\* ------------------------------------------- SpecForm: the booking form
\* The form on a grid of FormSlots slots with FormDesks desks, over a bookings
\* table that other pages change as well.
FormGrid == SubSeq(AllSlotLabels, 1, FormSlots)

\* names of rows of workspace_types, and values of the date input
WorkspaceTypeNames == { "Hot Desk", "Private Office" }
FormDates == { "2025-08-01", "2025-08-02" }
FormDurations == { "1-hour", "2-hours" }

\* the duration codes of the rows the table holds
StoreDurations == { "1-hour" }

\* status: 'pending' | 'code_sent' | 'confirmed' | 'rejected' | 'cancelled'
Statuses == { "pending", "code_sent", "confirmed", "rejected", "cancelled" }

\* .in('status', ['pending', 'confirmed', 'code_sent'])
QueriedStatuses == { "pending", "confirmed", "code_sent" }

\* the rows the table can hold
StoreRows ==
    [ workspace_type : WorkspaceTypeNames,
      date : FormDates,
      time_slot : Range(FormGrid),
      duration : StoreDurations,
      desk_number : { NullDesk },
      status : Statuses ]

\* .select('time_slot, duration, desk_number')
SelectColumns(row) ==
    [ time_slot |-> row.time_slot, duration |-> row.duration,
      desk_number |-> row.desk_number ]

\* a slip: the status filter is missing from the query
RECURSIVE QueryBookings_NoStatusFilter(_, _, _, _)
QueryBookings_NoStatusFilter(table, workspaceType, date, k) ==
    IF k > Len(table) THEN << >>
    ELSE IF /\ table[k].workspace_type = workspaceType
            /\ table[k].date = date
         THEN << SelectColumns(table[k]) >>
                  \o QueryBookings_NoStatusFilter(table, workspaceType, date, k + 1)
         ELSE QueryBookings_NoStatusFilter(table, workspaceType, date, k + 1)

\* from('bookings').select(...).eq('workspace_type', ...).eq('date', ...)
\* .in('status', [...]), from the k-th row of the table on
RECURSIVE QueryBookings(_, _, _, _)
QueryBookings(table, workspaceType, date, k) ==
    IF k > Len(table) THEN << >>
    ELSE IF /\ table[k].workspace_type = workspaceType
            /\ table[k].date = date
            /\ table[k].status \in QueriedStatuses
         THEN << SelectColumns(table[k]) >>
                  \o QueryBookings(table, workspaceType, date, k + 1)
         ELSE QueryBookings(table, workspaceType, date, k + 1)

\* the try block of fetchBookedSlots for the form values of the call, on the
\* table as the query finds it
FetchResult(table, call, slots, desks) ==
    LET rowsFound == QueryBookings(table, call.workspaceType, call.date, 1)
        hours == convertDurationToHours(call.duration, Len(slots))
        matrix == BuildMatrix(rowsFound, slots, desks)
    IN  UnavailableSlots(matrix, hours, slots, desks)

RemoveAt(q, k) == SubSeq(q, 1, k - 1) \o SubSeq(q, k + 1, Len(q))

DependencyFields == { "workspaceType", "date", "duration" }

\* formData.workspaceType && formData.date && formData.duration
AllChosen(fd) == fd.workspaceType # "" /\ fd.date # "" /\ fd.duration # ""

\* the disabled attribute of the time-slot <select>
TimeSlotDisabled(fd, checking) == ~AllChosen(fd) \/ checking

\* the values the controls can send to handleChange
FieldValues(name, fd, checking, slots, booked) ==
    CASE name = "workspaceType" -> WorkspaceTypeNames
      [] name = "date" -> FormDates \cup { "" }
      [] name = "duration" -> FormDurations \cup { "" }
      [] name = "timeSlot" ->
            IF TimeSlotDisabled(fd, checking) THEN {}
            ELSE Range(TimeSlotOptions(slots, booked)) \cup { "" }

\* a slip: the time slot is kept when a dependency changes
ChangedFormData_KeepsTimeSlot(fd, name, value) == [ fd EXCEPT ![name] = value ]

\* setFormData of handleChange
ChangedFormData(fd, name, value) ==
    IF name \in DependencyFields /\ fd.timeSlot # ""
    THEN [ [ fd EXCEPT ![name] = value ] EXCEPT !.timeSlot = "" ]
    ELSE [ fd EXCEPT ![name] = value ]

\* handleChange, and the effect on [workspaceType, date, duration] that runs
\* after the render when one of the three has changed, with at most limit
\* checks in flight
HandleChangeWithin(limit) ==
    \E name \in DependencyFields \cup { "timeSlot" } :
      \E value \in FieldValues(name, formData, checkingAvailability,
                               hourlySlots, bookedSlots) \ { formData[name] } :
        LET fd == ChangedFormData(formData, name, value)
        IN  /\ formData' = fd
            /\ IF name \notin DependencyFields
               THEN UNCHANGED << bookedSlots, checkingAvailability, fetches >>
               ELSE IF AllChosen(fd)
               THEN /\ Len(fetches) < limit
                    /\ checkingAvailability' = TRUE
                    /\ fetches' = Append(fetches,
                           [ workspaceType |-> fd.workspaceType,
                             date |-> fd.date, duration |-> fd.duration ])
                    /\ UNCHANGED bookedSlots
               ELSE /\ bookedSlots' = << >>
                    /\ UNCHANGED << checkingAvailability, fetches >>
            /\ UNCHANGED << hourlySlots, totalDesks, checkVars, raceVars, pc, pairVars,
                            bookings, isSubmitting, createArg >>

HandleChange == HandleChangeWithin(MaxFetches)

\* the query of one pending fetchBookedSlots answers with rows
FetchSucceeds ==
    \E k \in 1..Len(fetches) :
        /\ bookedSlots' = FetchResult(bookings, fetches[k], hourlySlots, totalDesks)
        /\ checkingAvailability' = FALSE
        /\ fetches' = RemoveAt(fetches, k)
        /\ pc' = "done"
        /\ UNCHANGED << hourlySlots, totalDesks, checkVars, raceVars, pairVars,
                        bookings, formData, isSubmitting, createArg >>

\* a slip: the catch block leaves the set of the last check in place
FetchFails_KeepsOldSet ==
    \E k \in 1..Len(fetches) :
        /\ checkingAvailability' = FALSE
        /\ fetches' = RemoveAt(fetches, k)
        /\ pc' = "failed"
        /\ UNCHANGED << hourlySlots, totalDesks, checkVars, raceVars, pairVars,
                        bookings, formData, bookedSlots, isSubmitting, createArg >>

\* the query of one pending fetchBookedSlots answers with an error
FetchFails ==
    \E k \in 1..Len(fetches) :
        /\ bookedSlots' = << >>
        /\ checkingAvailability' = FALSE
        /\ fetches' = RemoveAt(fetches, k)
        /\ pc' = "failed"
        /\ UNCHANGED << hourlySlots, totalDesks, checkVars, raceVars, pairVars,
                        bookings, formData, isSubmitting, createArg >>

\* a slip: the button is disabled only while submitting
SubmitEnabled_NoFullGridTest(submitting, booked, slots) == ~submitting

\* the submit button: disabled={isSubmitting || bookedSlots.length === hourlySlots.length}
SubmitEnabled(submitting, booked, slots) ==
    ~(submitting \/ Len(booked) = Len(slots))

\* the required attributes of date, duration and timeSlot; a disabled control
\* is not validated, and the customer fields are taken as filled in
FormValid(fd, checking) ==
    /\ fd.date # ""
    /\ fd.duration # ""
    /\ TimeSlotDisabled(fd, checking) \/ fd.timeSlot # ""

\* handleSubmit up to the call of createAdminBooking
HandleSubmit ==
    /\ SubmitEnabled(isSubmitting, bookedSlots, hourlySlots)
    /\ FormValid(formData, checkingAvailability)
    /\ isSubmitting' = TRUE
    /\ createArg' = << formData >>
    /\ UNCHANGED << hourlySlots, totalDesks, checkVars, raceVars, pc, pairVars,
                    bookings, formData, bookedSlots, checkingAvailability,
                    fetches >>

\* the row createAdminBooking stores for its argument: the form's values, no
\* desk, and a status of its choosing
CreatedRow(bookingData, status) ==
    [ workspace_type |-> bookingData.workspaceType,
      date |-> bookingData.date,
      time_slot |-> bookingData.timeSlot,
      duration |-> bookingData.duration,
      desk_number |-> NullDesk,
      status |-> status ]

\* createAdminBooking resolves: the row is stored, onSuccess() and onClose()
\* are called, and the finally block clears isSubmitting
CreateSucceeds ==
    /\ isSubmitting
    /\ Len(bookings) < MaxStore
    /\ \E status \in Statuses :
          bookings' = Append(bookings, CreatedRow(createArg[1], status))
    /\ isSubmitting' = FALSE
    /\ createArg' = << >>
    /\ UNCHANGED << hourlySlots, totalDesks, checkVars, raceVars, pc, pairVars,
                    formData, bookedSlots, checkingAvailability, fetches >>

\* createAdminBooking rejects: the catch and finally blocks of handleSubmit
CreateFails ==
    /\ isSubmitting
    /\ isSubmitting' = FALSE
    /\ createArg' = << >>
    /\ UNCHANGED << hourlySlots, totalDesks, checkVars, raceVars, pc, pairVars,
                    bookings, formData, bookedSlots, checkingAvailability,
                    fetches >>

\* the statuses the client page can move a booking to: cancel unless
\* cancelled, confirm or reject while pending
NewStatuses(status) ==
    (IF status # "cancelled" THEN { "cancelled" } ELSE {})
        \cup (IF status = "pending" THEN { "confirmed", "rejected" } ELSE {})

\* updateBookingStatus: update({ status: newStatus }).eq('id', bookingId)
UpdateBookingStatus ==
    \E k \in 1..Len(bookings) :
      \E newStatus \in NewStatuses(bookings[k].status) :
        /\ bookings' = [ bookings EXCEPT ![k].status = newStatus ]
        /\ UNCHANGED << hourlySlots, totalDesks, checkVars, raceVars, pc, pairVars,
                        formData, bookedSlots, checkingAvailability,
                        isSubmitting, fetches, createArg >>

\* the form is mounted and fetchWorkspaceTypes has set the grid; the table
\* holds whatever earlier bookings left in it
InitForm ==
    /\ hourlySlots = FormGrid
    /\ totalDesks = FormDesks
    /\ data = << >>
    /\ rows = 0
    /\ booking = NoBooking
    /\ occupiedSlots = << >>
    /\ deskAvailabilityMatrix = << >>
    /\ duration = ""
    /\ requestedDurationHours = 0
    /\ unavailableSlots = << >>
    /\ pc = "idle"
    /\ PairIdle
    /\ bookings \in SeqsUpTo(StoreRows, MaxStore)
    /\ FormMounted
    /\ RaceIdle

NextForm ==
    \/ HandleChange
    \/ FetchSucceeds
    \/ FetchFails
    \/ HandleSubmit
    \/ CreateSucceeds
    \/ CreateFails
    \/ UpdateBookingStatus

SpecForm == InitForm /\ [][NextForm]_vars

\* --------- SpecOverlap: the form with availability checks that overlap
\* The fields change while earlier checks still await their query, and every
\* query answers with rows; nobody submits and the table stays as it is.
HandleChangeOverlapping == HandleChangeWithin(MaxOverlap)

NextOverlap == HandleChangeOverlapping \/ FetchSucceeds

SpecOverlap == InitForm /\ [][NextOverlap]_vars

\* -------------- SpecFields: handleChange on the form data, field by field
\* The updater handleChange hands to setFormData, applied to the form data
\* with a customer field next to the four booking fields. pc keeps the name of
\* the field of the last change event.
CustomerNames == { "Ann", "Bob" }

FieldNames == DependencyFields \cup { "timeSlot", "customerName" }

\* the form data the form can hold: a time slot is chosen only while workspace
\* type, date and duration are all chosen
FieldRecords ==
    { fd \in [ workspaceType : WorkspaceTypeNames \cup { "" },
               date : FormDates \cup { "" },
               timeSlot : Range(FormGrid) \cup { "" },
               duration : FormDurations \cup { "" },
               customerName : CustomerNames \cup { "" } ] :
        fd.timeSlot # "" => AllChosen(fd) }

\* the values a change event of the named control can carry
EventValues(name) ==
    IF name = "customerName" THEN CustomerNames \cup { "" }
    ELSE FieldValues(name, formData, checkingAvailability, hourlySlots, bookedSlots)

InitFields ==
    /\ hourlySlots = FormGrid
    /\ totalDesks = FormDesks
    /\ data = << >>
    /\ rows = 0
    /\ booking = NoBooking
    /\ occupiedSlots = << >>
    /\ deskAvailabilityMatrix = << >>
    /\ duration = ""
    /\ requestedDurationHours = 0
    /\ unavailableSlots = << >>
    /\ pc = "idle"
    /\ PairIdle
    /\ bookings = << >>
    /\ formData \in FieldRecords
    /\ bookedSlots = << >>
    /\ checkingAvailability = FALSE
    /\ isSubmitting = FALSE
    /\ fetches = << >>
    /\ createArg = << >>
    /\ RaceIdle

\* one change event of one control
ApplyHandleChange ==
    \E name \in FieldNames :
      \E value \in EventValues(name) \ { formData[name] } :
        /\ formData' = ChangedFormData(formData, name, value)
        /\ pc' = name
        /\ UNCHANGED << hourlySlots, totalDesks, checkVars, raceVars, pairVars, bookings,
                        bookedSlots, checkingAvailability, isSubmitting,
                        fetches, createArg >>

NextFields == ApplyHandleChange

SpecFields == InitFields /\ [][NextFields]_vars

\* ------------------- SpecRace: two clients with the form open side by side
\* Each client fills in workspace type, date and duration, has its availability
\* check answered from the table as it then is, picks one of the offered time
\* slots, submits, and has its booking stored. The steps of the two clients
\* interleave freely; nobody else changes the table.

\* the rows the table holds at the start: confirmed bookings on a desk
RaceRows ==
    [ workspace_type : WorkspaceTypeNames,
      date : FormDates,
      time_slot : Range(FormGrid),
      duration : StoreDurations,
      desk_number : { << d >> : d \in 1..FormDesks },
      status : { "confirmed" } ]

CallOf(fd) ==
    [ workspaceType |-> fd.workspaceType, date |-> fd.date,
      duration |-> fd.duration ]

\* handleChange for workspace type, date and duration; with the third one
\* chosen the effect calls fetchBookedSlots
RaceFill(c) ==
    /\ clients[c].stage = "filling"
    /\ \E w \in WorkspaceTypeNames : \E d \in FormDates : \E h \in FormDurations :
         clients' = [ clients EXCEPT
             ![c].formData = ChangedFormData(ChangedFormData(ChangedFormData(
                                 @, "workspaceType", w), "date", d), "duration", h),
             ![c].stage = "checking" ]
    /\ UNCHANGED << hourlySlots, totalDesks, checkVars, pc, pairVars, formVars >>

\* the query of fetchBookedSlots answers with the rows of the table as it is,
\* and the try block publishes the infeasible set
RaceCheck(c) ==
    /\ clients[c].stage = "checking"
    /\ clients' = [ clients EXCEPT
           ![c].snapshot = bookings,
           ![c].bookedSlots = FetchResult(bookings, CallOf(clients[c].formData),
                                          hourlySlots, totalDesks),
           ![c].stage = "checked" ]
    /\ UNCHANGED << hourlySlots, totalDesks, checkVars, pc, pairVars, formVars >>

\* handleChange for one of the <option>s of the time-slot <select>
RaceSelect(c) ==
    /\ clients[c].stage = "checked"
    /\ \E slot \in Range(TimeSlotOptions(hourlySlots, clients[c].bookedSlots)) :
         clients' = [ clients EXCEPT
             ![c].formData = ChangedFormData(@, "timeSlot", slot),
             ![c].stage = "selected" ]
    /\ UNCHANGED << hourlySlots, totalDesks, checkVars, pc, pairVars, formVars >>

\* handleSubmit up to the call of createAdminBooking
RaceSubmit(c) ==
    /\ clients[c].stage = "selected"
    /\ SubmitEnabled(FALSE, clients[c].bookedSlots, hourlySlots)
    /\ FormValid(clients[c].formData, FALSE)
    /\ clients' = [ clients EXCEPT ![c].stage = "submitted" ]
    /\ UNCHANGED << hourlySlots, totalDesks, checkVars, pc, pairVars, formVars >>

\* a store that would test the slot again when it stores the row, and drop a
\* row whose slot has become infeasible
RaceInsert_ChecksAgain(c) ==
    /\ clients[c].stage = "submitted"
    /\ \E status \in Statuses :
         bookings' =
             IF includes(FetchResult(bookings, CallOf(clients[c].formData),
                                     hourlySlots, totalDesks),
                         clients[c].formData.timeSlot)
             THEN bookings
             ELSE Append(bookings, CreatedRow(clients[c].formData, status))
    /\ clients' = [ clients EXCEPT ![c].stage = "inserted" ]
    /\ UNCHANGED << hourlySlots, totalDesks, checkVars, pc, pairVars,
                    formData, bookedSlots, checkingAvailability, isSubmitting,
                    fetches, createArg >>

\* createAdminBooking stores the row, whatever the table holds by now
RaceInsert(c) ==
    /\ clients[c].stage = "submitted"
    /\ \E status \in Statuses :
         bookings' = Append(bookings, CreatedRow(clients[c].formData, status))
    /\ clients' = [ clients EXCEPT ![c].stage = "inserted" ]
    /\ UNCHANGED << hourlySlots, totalDesks, checkVars, pc, pairVars,
                    formData, bookedSlots, checkingAvailability, isSubmitting,
                    fetches, createArg >>

InitRace ==
    /\ hourlySlots = FormGrid
    /\ totalDesks = FormDesks
    /\ data = << >>
    /\ rows = 0
    /\ booking = NoBooking
    /\ occupiedSlots = << >>
    /\ deskAvailabilityMatrix = << >>
    /\ duration = ""
    /\ requestedDurationHours = 0
    /\ unavailableSlots = << >>
    /\ pc = "idle"
    /\ PairIdle
    /\ bookings \in SeqsUpTo(RaceRows, MaxStore)
    /\ FormMounted
    /\ RaceIdle

NextRace ==
    \E c \in Clients :
        \/ RaceFill(c)
        \/ RaceCheck(c)
        \/ RaceSelect(c)
        \/ RaceSubmit(c)
        \/ RaceInsert(c)

SpecRace == InitRace /\ [][NextRace]_vars

\* ================================================================ claims
\* Vocabulary of the statements below, written from the specification's
\* wording and not from the functions above.
N == Len(hourlySlots)

\* the 0-based grid positions
Positions == 0..(N - 1)

SlotAt(i) == hourlySlots[i + 1]

InGrid(label) == \E i \in Positions : SlotAt(i) = label

PositionOf(label) == CHOOSE i \in Positions : SlotAt(i) = label

\* the duration table of the specification
TableHours(code) ==
    IF code = "1-hour" THEN 1
    ELSE IF code = "2-hours" THEN 2
    ELSE IF code = "4-hours" THEN 4
    ELSE IF code = "1-day" THEN N
    ELSE IF code = "1-week" THEN 7 * N
    ELSE IF code = "1-month" THEN 30 * N
    ELSE 1

\* the grid positions a span of h slots from position i covers, cut at the
\* end of the grid
SpanPositions(i, h) == { j \in Positions : i <= j /\ j < i + h }

Fits(i, h) == i + h <= N

\* the grid positions a reservation occupies
ReservedPositions(b) ==
    IF InGrid(b.time_slot)
    THEN SpanPositions(PositionOf(b.time_slot), TableHours(b.duration))
    ELSE {}

Free(i, d) == deskAvailabilityMatrix[SlotAt(i)][d]

Infeasible(i) == \E k \in 1..Len(unavailableSlots) : unavailableSlots[k] = SlotAt(i)

Desks == 1..totalDesks

ValidDesk(b) ==
    /\ b.desk_number # NullDesk
    /\ b.desk_number[1] \in Desks

Folded == pc = "fold" /\ rows > 0

\* C1: a start slot is left out of the infeasible set exactly when its span
\* has all the requested slots and one and the same desk is free at every
\* slot of the span.
C1_FeasibleIffOneDeskFreeThroughout ==
    pc = "done" =>
        \A i \in Positions :
            ~Infeasible(i) <=>
                /\ Fits(i, requestedDurationHours)
                /\ \E d \in Desks :
                     \A j \in SpanPositions(i, requestedDurationHours) : Free(j, d)

\* some start slot is feasible on a desk other than the first, and another is
\* infeasible although each slot of its span has a free desk
C1_Witness ==
    /\ pc = "done"
    /\ requestedDurationHours = 2
    /\ \E i \in Positions :
         /\ Fits(i, 2)
         /\ ~Infeasible(i)
         /\ ~Free(i, 1)
    /\ \E i \in Positions :
         /\ Fits(i, 2)
         /\ Infeasible(i)
         /\ \A j \in SpanPositions(i, 2) : \E d \in Desks : Free(j, d)

\* C2: once the matrix is built, no desk is free at any slot occupied by a
\* reservation that has no desk assigned.
C2_UnassignedBlocksEveryDesk ==
    pc = "done" =>
        \A k \in 1..Len(data) :
            data[k].desk_number = NullDesk =>
                \A j \in ReservedPositions(data[k]) :
                    \A d \in Desks : ~Free(j, d)

C2_Witness ==
    /\ pc = "done"
    /\ totalDesks >= 2
    /\ \E k \in 1..Len(data) :
         /\ data[k].desk_number = NullDesk
         /\ Cardinality(ReservedPositions(data[k])) >= 2
         /\ \A j \in ReservedPositions(data[k]) : \A d \in Desks : ~Free(j, d)
    /\ \E j \in Positions : \A d \in Desks : Free(j, d)

\* C3: folding a reservation with a valid desk number k clears desk k at the
\* slots of its span and changes no other flag of the matrix.
C3_AssignedFoldClearsOnlyItsDesk ==
    [][ (pc = "fold" /\ rows' = rows + 1 /\ ValidDesk(booking')) =>
          /\ DOMAIN deskAvailabilityMatrix' = DOMAIN deskAvailabilityMatrix
          /\ \A i \in Positions : \A d \in Desks :
               deskAvailabilityMatrix'[SlotAt(i)][d] =
                   IF i \in ReservedPositions(booking') /\ d = booking'.desk_number[1]
                   THEN FALSE
                   ELSE deskAvailabilityMatrix[SlotAt(i)][d] ]_vars

\* the second fold is of a reservation on desk 2 over two slots; desk 1 is
\* still free at one of them and blocked at a slot outside the span
C3_Witness ==
    /\ pc = "fold"
    /\ rows = 2
    /\ booking.desk_number = << 2 >>
    /\ totalDesks >= 2
    /\ Cardinality(ReservedPositions(booking)) = 2
    /\ \A j \in ReservedPositions(booking) : ~Free(j, 2)
    /\ \E j \in ReservedPositions(booking) : Free(j, 1)
    /\ \E j \in Positions \ ReservedPositions(booking) : ~Free(j, 1) /\ Free(j, 2)

\* C4: a start slot from which the requested hours run past the end of the
\* grid is infeasible, whatever the reservations.
C4_SpanPastEndInfeasible ==
    pc = "done" =>
        \A i \in Positions :
            i + requestedDurationHours > N => Infeasible(i)

\* no reservation at all, and the last start slots are infeasible by length
C4_Witness ==
    /\ pc = "done"
    /\ rows = 0
    /\ N = 3
    /\ requestedDurationHours = 2
    /\ unavailableSlots = << SlotAt(2) >>

\* C5: if every desk is blocked at some slot of a start slot's required span,
\* the start slot is infeasible.
C5_EveryDeskBlockedSomewhereInfeasible ==
    pc = "done" =>
        \A i \in Positions :
            (\A d \in Desks :
                \E j \in SpanPositions(i, requestedDurationHours) : ~Free(j, d))
            => Infeasible(i)

\* every desk is blocked at a different slot of the span, each slot keeps a
\* free desk, and the span fits
C5_Witness ==
    /\ pc = "done"
    /\ totalDesks = 2
    /\ requestedDurationHours = 2
    /\ \E i \in Positions :
         /\ Fits(i, 2)
         /\ ~Free(i, 1) /\ Free(i, 2)
         /\ Free(i + 1, 1) /\ ~Free(i + 1, 2)
         /\ Infeasible(i)

\* C6: a start slot whose span fits and meets no reservation's occupied slots
\* is feasible.
C6_UntouchedSpanFeasible ==
    pc = "done" =>
        \A i \in Positions :
            ( /\ Fits(i, requestedDurationHours)
              /\ \A k \in 1..Len(data) :
                   ReservedPositions(data[k])
                       \cap SpanPositions(i, requestedDurationHours) = {} )
            => ~Infeasible(i)

\* a reservation blocks the first slot on every desk; the two-slot span that
\* starts right after it is feasible
C6_Witness ==
    /\ pc = "done"
    /\ N = 3
    /\ requestedDurationHours = 2
    /\ Len(data) = 1
    /\ ReservedPositions(data[1]) = {0}
    /\ \A d \in Desks : ~Free(0, d)
    /\ Infeasible(0)
    /\ ~Infeasible(1)

\* C7: the hour count of a duration code is the one of the table, and 1 for
\* any code the table does not list.
C7_DurationTable ==
    pc = "done" =>
        /\ (duration = "1-hour" => requestedDurationHours = 1)
        /\ (duration = "2-hours" => requestedDurationHours = 2)
        /\ (duration = "4-hours" => requestedDurationHours = 4)
        /\ (duration = "1-day" => requestedDurationHours = N)
        /\ (duration = "1-week" => requestedDurationHours = 7 * N)
        /\ (duration = "1-month" => requestedDurationHours = 30 * N)
        /\ (duration \notin KnownDurations => requestedDurationHours = 1)

C7_Witness ==
    /\ pc = "done"
    /\ N = 3
    /\ duration = "1-week"
    /\ requestedDurationHours = 21

\* C8: for a start slot at position i and a count c with i + c <= N the span
\* is the c grid labels at positions i .. i+c-1, in grid order.
C8_SpanInsideGrid ==
    (Folded /\ InGrid(booking.time_slot)) =>
        LET i == PositionOf(booking.time_slot)
            c == TableHours(booking.duration)
        IN  i + c <= N =>
               /\ Len(occupiedSlots) = c
               /\ \A j \in 1..c : occupiedSlots[j] = SlotAt(i + j - 1)

C8_Witness ==
    /\ Folded
    /\ N = 3
    /\ booking.time_slot = SlotAt(1)
    /\ booking.duration = "2-hours"
    /\ occupiedSlots = << SlotAt(1), SlotAt(2) >>

\* C9: when i + c > N the span is the N - i labels from the start slot to the
\* last grid slot, shorter than c, with no slot from before the start slot.
C9_SpanCutAtEndOfGrid ==
    (Folded /\ InGrid(booking.time_slot)) =>
        LET i == PositionOf(booking.time_slot)
            c == TableHours(booking.duration)
        IN  i + c > N =>
               /\ Len(occupiedSlots) = N - i
               /\ Len(occupiedSlots) < c
               /\ \A j \in 1..(N - i) : occupiedSlots[j] = SlotAt(i + j - 1)
               /\ \A j \in Positions :
                    j < i => \A k \in 1..Len(occupiedSlots) : occupiedSlots[k] # SlotAt(j)

C9_Witness ==
    /\ Folded
    /\ N = 3
    /\ booking.time_slot = SlotAt(1)
    /\ booking.duration = "4-hours"
    /\ occupiedSlots = << SlotAt(1), SlotAt(2) >>

\* C10: a start label that is not in the grid gives the empty span, for every
\* count.
C10_UnknownStartEmptySpan ==
    (Folded /\ ~InGrid(booking.time_slot)) => occupiedSlots = << >>

C10_Witness ==
    /\ Folded
    /\ N = 3
    /\ booking.time_slot = UnknownSlot
    /\ booking.duration = "2-hours"
    /\ occupiedSlots = << >>
    /\ \A i \in Positions : \A d \in Desks : Free(i, d)

\* C11: a reservation whose desk number is not null and outside
\* 1..totalDesks is folded like an unassigned one: every desk is cleared at
\* every slot of its span, and nothing else changes.
C11_OutOfRangeDeskBlocksEveryDesk ==
    [][ ( /\ pc = "fold" /\ rows' = rows + 1
          /\ booking'.desk_number # NullDesk
          /\ booking'.desk_number[1] \notin Desks ) =>
          /\ DOMAIN deskAvailabilityMatrix' = DOMAIN deskAvailabilityMatrix
          /\ \A i \in Positions : \A d \in Desks :
               deskAvailabilityMatrix'[SlotAt(i)][d] =
                   IF i \in ReservedPositions(booking')
                   THEN FALSE
                   ELSE deskAvailabilityMatrix[SlotAt(i)][d] ]_vars

\* a reservation on desk 0 over two slots has just been folded into a matrix
\* that had every desk free
C11_Witness ==
    /\ pc = "fold"
    /\ rows = 1
    /\ totalDesks = 2
    /\ booking.desk_number = << 0 >>
    /\ Cardinality(ReservedPositions(booking)) = 2
    /\ \A i \in Positions : \A d \in Desks :
         Free(i, d) <=> i \notin ReservedPositions(booking)

\* C13: the matrix has one entry per grid slot and each entry has exactly
\* totalDesks booleans, after initialisation and after every fold.
C13_MatrixShape ==
    pc \in {"fold", "done"} =>
        /\ DOMAIN deskAvailabilityMatrix = { SlotAt(i) : i \in Positions }
        /\ Cardinality(DOMAIN deskAvailabilityMatrix) = N
        /\ \A slot \in DOMAIN deskAvailabilityMatrix :
             /\ Len(deskAvailabilityMatrix[slot]) = totalDesks
             /\ \A d \in 1..Len(deskAvailabilityMatrix[slot]) :
                  deskAvailabilityMatrix[slot][d] \in BOOLEAN

\* two rows are folded, the last one with the desk number totalDesks + 1
C13_Witness ==
    /\ pc = "fold"
    /\ rows = 2
    /\ N = 3
    /\ totalDesks = 2
    /\ booking.desk_number = << 3 >>
    /\ ReservedPositions(booking) # {}
    /\ Cardinality(DOMAIN deskAvailabilityMatrix) = 3
    /\ \A slot \in DOMAIN deskAvailabilityMatrix : Len(deskAvailabilityMatrix[slot]) = 2

\* C15: in one build every flag starts true, and no fold step sets a flag
\* that is false back to true.
C15_FlagsOnlyEverCleared ==
    [][ /\ (pc = "start" /\ pc' = "fold") =>
              \A i \in Positions : \A d \in Desks :
                  deskAvailabilityMatrix'[SlotAt(i)][d]
        /\ pc = "fold" =>
              \A i \in Positions : \A d \in Desks :
                  ~deskAvailabilityMatrix[SlotAt(i)][d]
                      => ~deskAvailabilityMatrix'[SlotAt(i)][d] ]_vars

\* the second fold, on desk 2, covers a slot whose desk 1 the first fold had
\* cleared: both flags are false now
C15_Witness ==
    /\ pc = "fold"
    /\ rows = 2
    /\ totalDesks = 2
    /\ booking.desk_number = << 2 >>
    /\ \E i \in ReservedPositions(booking) : ~Free(i, 1) /\ ~Free(i, 2)
    /\ \E i \in Positions : Free(i, 1) /\ Free(i, 2)

\* positions of the labels of q grow strictly from left to right
InGridOrder(q) ==
    /\ \A k \in 1..Len(q) : InGrid(q[k])
    /\ \A k, l \in 1..Len(q) : k < l => PositionOf(q[k]) < PositionOf(q[l])

\* C17: the infeasible result lists grid labels in grid order, each once, and
\* the options offered are exactly the other grid slots, in grid order.
C17_ResultAndOptionsInGridOrder ==
    pc = "done" =>
        LET options == TimeSlotOptions(hourlySlots, unavailableSlots)
        IN  /\ InGridOrder(unavailableSlots)
            /\ InGridOrder(options)
            /\ \A i \in Positions :
                 (\E k \in 1..Len(options) : options[k] = SlotAt(i))
                     <=> ~Infeasible(i)
            /\ Len(options) + Len(unavailableSlots) = N

\* the first and the last slot are infeasible and the middle one is offered
C17_Witness ==
    /\ pc = "done"
    /\ N = 3
    /\ unavailableSlots = << SlotAt(0), SlotAt(2) >>
    /\ TimeSlotOptions(hourlySlots, unavailableSlots) = << SlotAt(1) >>

\* C14: every flag that is false in the matrix built from a list is false in
\* the matrix built from that list plus one more reservation.
C14_ExtraReservationOnlyClears ==
    (pc = "fold" /\ extraFolded) =>
        /\ DOMAIN otherMatrix = DOMAIN deskAvailabilityMatrix
        /\ \A i \in Positions : \A d \in Desks :
             ~deskAvailabilityMatrix[SlotAt(i)][d] => ~otherMatrix[SlotAt(i)][d]

\* two rows and the extra one: a flag is false in both matrices, another is
\* true without the extra row and false with it
C14_Witness ==
    /\ pc = "fold"
    /\ extraFolded
    /\ rows = 2
    /\ \E i \in Positions : \E d \in Desks :
         ~deskAvailabilityMatrix[SlotAt(i)][d] /\ ~otherMatrix[SlotAt(i)][d]
    /\ \E i \in Positions : \E d \in Desks :
         deskAvailabilityMatrix[SlotAt(i)][d] /\ ~otherMatrix[SlotAt(i)][d]
    /\ \E i \in Positions : \E d \in Desks :
         deskAvailabilityMatrix[SlotAt(i)][d] /\ otherMatrix[SlotAt(i)][d]

ScenarioAssigned ==
    << [ time_slot |-> "09:00 AM", duration |-> "2-hours", desk_number |-> << 1 >> ] >>

ScenarioUnassigned ==
    << [ time_slot |-> "10:00 AM", duration |-> "2-hours", desk_number |-> NullDesk ] >>

\* C18: ten-slot grid, one reservation at 09:00 for 2 hours on desk 1, a
\* 1-hour request: with one desk exactly 09:00 and 10:00 are infeasible, with
\* two desks nothing is.
C18_ScenarioOneDeskTwoDesks ==
    (pc = "done" /\ data = ScenarioAssigned /\ duration = "1-hour") =>
        /\ totalDesks = 1 => unavailableSlots = << "09:00 AM", "10:00 AM" >>
        /\ totalDesks = 2 => unavailableSlots = << >>

C18_Witness ==
    /\ pc = "done"
    /\ N = 10
    /\ data = ScenarioAssigned
    /\ duration = "1-hour"
    /\ totalDesks = 1
    /\ unavailableSlots = << "09:00 AM", "10:00 AM" >>

\* C19: ten-slot grid, three desks, one unassigned reservation at 10:00 for 2
\* hours: for every requested duration every start slot whose required span
\* contains 10:00 or 11:00 is infeasible.
C19_ScenarioUnassignedBlocksOverlaps ==
    (pc = "done" /\ data = ScenarioUnassigned /\ totalDesks = 3) =>
        \A i \in Positions :
            (\E j \in SpanPositions(i, requestedDurationHours) :
                 SlotAt(j) \in { "10:00 AM", "11:00 AM" })
            => Infeasible(i)

\* a 4-hour request: 08:00 is infeasible because its span reaches 10:00, and
\* 12:00 is feasible
C19_Witness ==
    /\ pc = "done"
    /\ data = ScenarioUnassigned
    /\ totalDesks = 3
    /\ duration = "4-hours"
    /\ unavailableSlots = << "08:00 AM", "09:00 AM", "10:00 AM", "11:00 AM",
                             "03:00 PM", "04:00 PM", "05:00 PM" >>

\* ---------------------------------------------------------------- C12
\* the rows of the table that count for an availability check of the form
\* values of a call: those of its workspace type and date that are neither
\* rejected nor cancelled
C12_CountingRows(call) ==
    LET counts(row) == /\ row.workspace_type = call.workspaceType
                       /\ row.date = call.date
                       /\ row.status \notin { "rejected", "cancelled" }
        kept == SelectSeq(bookings, counts)
    IN  [ k \in 1..Len(kept) |-> SelectColumns(kept[k]) ]

\* the infeasible set of the counting rows alone
C12_InfeasibleOfCounting(call) ==
    UnavailableSlots(BuildMatrix(C12_CountingRows(call), hourlySlots, totalDesks),
                     convertDurationToHours(call.duration, Len(hourlySlots)),
                     hourlySlots, totalDesks)

\* C12: only the reservations of the requested workspace type and date whose
\* status is pending, confirmed or code_sent influence the infeasible set:
\* whenever an availability check completes with the rows of its query, the
\* set the form then holds is the infeasible set of those rows alone, whatever
\* rejected or cancelled rows and rows of another type or date the table
\* holds, so a booking moved to cancelled or rejected no longer blocks.
C12_OnlyActiveRowsOfTypeAndDateCount ==
    [][ \A k \in 1..Len(fetches) :
            (fetches' = RemoveAt(fetches, k) /\ pc' = "done")
                => bookedSlots' = C12_InfeasibleOfCounting(fetches[k]) ]_vars

\* a check has completed and holds no infeasible slot for a one-hour request
\* although the table holds a cancelled or rejected booking of the form's
\* workspace type and date
C12_Witness ==
    /\ pc = "done"
    /\ fetches = << >>
    /\ AllChosen(formData)
    /\ formData.duration = "1-hour"
    /\ bookedSlots = << >>
    /\ \E k \in 1..Len(bookings) :
          /\ bookings[k].workspace_type = formData.workspaceType
          /\ bookings[k].date = formData.date
          /\ bookings[k].status \in { "rejected", "cancelled" }

\* ---------------------------------------------------------------- C20
\* C20: createAdminBooking is never called in a state where the infeasible set
\* the form holds has as many entries as the grid.
C20_NoSubmissionWhenHeldSetIsWholeGrid ==
    [][ (createArg' # createArg /\ createArg' # << >>)
            => Len(bookedSlots) # Len(hourlySlots) ]_vars

\* the form holds the whole grid as infeasible, and nothing but the button
\* stands in the way of a submission: the required fields pass validation
\* and no submission is under way
C20_Witness ==
    /\ Len(hourlySlots) > 0
    /\ Len(bookedSlots) = Len(hourlySlots)
    /\ FormValid(formData, checkingAvailability)
    /\ ~isSubmitting

\* ---------------------------------------------------------------- C23
\* the desks a reservation blocks at its slots
BlockedDesks(b) == IF ValidDesk(b) THEN { b.desk_number[1] } ELSE Desks

\* the same reservation with a valid value in a field that carries an anomaly:
\* a duration code of the table for an unrecognised one, a grid slot for a
\* start slot that is not in the grid, a desk of 1..totalDesks for a desk
\* number outside it
ValidVariants(b) ==
    { [ b EXCEPT !.duration = c ] :
          c \in IF b.duration \notin KnownDurations THEN KnownDurations ELSE {} }
    \cup { [ b EXCEPT !.time_slot = SlotAt(i) ] :
          i \in IF InGrid(b.time_slot) THEN {} ELSE Positions }
    \cup { [ b EXCEPT !.desk_number = << d >> ] :
          d \in IF b.desk_number # NullDesk /\ b.desk_number[1] \notin Desks
                THEN Desks ELSE {} }

\* C23: a reservation carrying an anomaly blocks at least every (slot, desk)
\* cell that the same reservation would block with any valid value in the
\* anomalous field.
C23_AnomalyBlocksAtLeastValidValue ==
    (Folded /\ rows = 1) =>
        \A v \in ValidVariants(booking) :
            \A i \in ReservedPositions(v) : \A d \in BlockedDesks(v) : ~Free(i, d)

\* ---------------------------------------------------------------- C24
\* the place of a duration code in the ordering
\* 1-hour <= 2-hours <= 4-hours <= 1-day <= 1-week <= 1-month
DurationRank(code) ==
    IF code = "1-hour" THEN 1
    ELSE IF code = "2-hours" THEN 2
    ELSE IF code = "4-hours" THEN 3
    ELSE IF code = "1-day" THEN 4
    ELSE IF code = "1-week" THEN 5
    ELSE 6

\* C24: for every grid length N >= 1 the hour count of a duration code is at
\* most the hour count of every code later in the ordering.
C24_DurationMonotonic ==
    (pc = "done" /\ N >= 1 /\ duration \in KnownDurations) =>
        \A later \in KnownDurations :
            DurationRank(duration) <= DurationRank(later)
                => requestedDurationHours <= convertDurationToHours(later, N)

\* C24, for the grids on which it holds: for every grid length N >= 4 the hour
\* count of a duration code is at most the hour count of every code later in
\* the ordering.
C24_DurationMonotonicFromFourSlots ==
    (pc = "done" /\ N >= 4 /\ duration \in KnownDurations) =>
        \A later \in KnownDurations :
            DurationRank(duration) <= DurationRank(later)
                => requestedDurationHours <= convertDurationToHours(later, N)

\* four slots: '4-hours' and '1-day' both count four hours
C24_Witness ==
    /\ pc = "done"
    /\ N = 4
    /\ duration = "4-hours"
    /\ requestedDurationHours = 4
    /\ convertDurationToHours("1-day", N) = 4

\* ---------------------------------------------------------------- C27
\* the labels from grid position i to the end of the grid
LabelsFrom(i) == [ k \in 1..(N - i) |-> SlotAt(i + k - 1) ]

\* C27: on a non-empty grid a '1-week' or '1-month' request has every start
\* slot in the infeasible set and a '1-day' request every start slot but
\* possibly the first; a reservation of one of these durations occupies the
\* slots from its start to the end of the grid and no more.
C27_DayWeekMonth ==
    /\ (pc = "done" /\ N >= 1 /\ duration \in { "1-week", "1-month" })
           => \A i \in Positions : Infeasible(i)
    /\ (pc = "done" /\ N >= 1 /\ duration = "1-day")
           => \A i \in Positions : i >= 1 => Infeasible(i)
    /\ (Folded /\ booking.duration \in { "1-day", "1-week", "1-month" }
               /\ InGrid(booking.time_slot))
           => occupiedSlots = LabelsFrom(PositionOf(booking.time_slot))

\* no reservation at all, three slots, and a one-month request finds every
\* start slot infeasible
C27_Witness ==
    /\ pc = "done"
    /\ N = 3
    /\ rows = 0
    /\ duration = "1-month"
    /\ unavailableSlots = hourlySlots

\* ---------------------------------------------------------------- C29
\* the hour counts a check can be asked for on this grid, and one more than
\* the grid is long
RequestHours == { convertDurationToHours(c, N) : c \in DurationCodes } \cup 1..(N + 1)

\* C29: a start slot that is infeasible for the requested hours is infeasible
\* for every larger hour count, on the same grid, desks and reservations.
C29_InfeasibleGrowsWithHours ==
    pc = "done" =>
        \A h \in RequestHours :
            h >= requestedDurationHours =>
                \A i \in Positions :
                    Infeasible(i) =>
                        includes(UnavailableSlots(deskAvailabilityMatrix, h,
                                                  hourlySlots, totalDesks),
                                 SlotAt(i))

\* a one-hour request: the first slot is taken and infeasible, the second is
\* feasible for one hour, and for two hours it is infeasible although the
\* span fits, because of the reservation on the third
C29_Witness ==
    /\ pc = "done"
    /\ N = 3
    /\ totalDesks = 1
    /\ requestedDurationHours = 1
    /\ unavailableSlots = << SlotAt(0), SlotAt(2) >>
    /\ UnavailableSlots(deskAvailabilityMatrix, 2, hourlySlots, totalDesks)
           = hourlySlots

\* ---------------------------------------------------------------- C28
\* C28: the matrix and the infeasible set do not depend on the order of the
\* reservation list nor on repeated entries: the build of a list and the build
\* of the same reservations in another order, or with a reservation repeated,
\* end in the same matrix and give the same infeasible set for every request.
C28_OrderAndRepeatsDoNotMatter ==
    pc = "fold" =>
        /\ otherMatrix = deskAvailabilityMatrix
        /\ \A code \in DurationCodes :
             UnavailableSlots(otherMatrix, TableHours(code), hourlySlots, totalDesks)
               = UnavailableSlots(deskAvailabilityMatrix, TableHours(code),
                                  hourlySlots, totalDesks)

\* after one row, two rows were folded in one order here and in the other
\* order there; some flags are cleared and some are not
C28_Witness ==
    /\ pc = "fold"
    /\ extraFolded
    /\ rows = 3
    /\ N = 2
    /\ totalDesks = 2
    /\ \E i \in Positions : \E d \in Desks : ~Free(i, d) /\ ~otherMatrix[SlotAt(i)][d]
    /\ \E i \in Positions : \E d \in Desks : Free(i, d) /\ otherMatrix[SlotAt(i)][d]

\* ---------------------------------------------------------------- C21
\* the form values a check started now would be called with
CurrentCall ==
    [ workspaceType |-> formData.workspaceType, date |-> formData.date,
      duration |-> formData.duration ]

\* the infeasible set for the form's current workspace type, date and
\* duration, on the table as it is
CurrentInfeasible == FetchResult(bookings, CurrentCall, hourlySlots, totalDesks)

\* createAdminBooking is called in this step
CallsCreateAdminBooking == createArg' # createArg /\ createArg' # << >>

\* C21: handleSubmit never passes to createAdminBooking a timeSlot that is in
\* the infeasible set computed for the form's current workspace type, date and
\* duration.
C21_NeverSubmitsInfeasibleSlot ==
    [][ (CallsCreateAdminBooking /\ AllChosen(formData))
            => ~includes(CurrentInfeasible, formData.timeSlot) ]_vars

\* ---------------------------------------------------------------- C26
\* C26: when the query of an availability check fails, the form's infeasible
\* set becomes empty, so that every grid slot is among the options and the
\* button is not disabled for a full grid, checkingAvailability becomes false,
\* and nothing else of the form changes.
C26_FailedQueryEmptiesTheSet ==
    [][ \A k \in 1..Len(fetches) :
            (fetches' = RemoveAt(fetches, k) /\ pc' = "failed") =>
                /\ bookedSlots' = << >>
                /\ checkingAvailability' = FALSE
                /\ TimeSlotOptions(hourlySlots', bookedSlots') = hourlySlots'
                /\ Len(hourlySlots') > 0 =>
                       (SubmitEnabled(isSubmitting', bookedSlots', hourlySlots')
                            <=> ~isSubmitting')
                /\ UNCHANGED << formData, isSubmitting, createArg, bookings >> ]_vars

\* a check has failed: the form holds the empty set and offers every slot,
\* although the table holds an active booking of the form's workspace type and
\* date
C26_Witness ==
    /\ pc = "failed"
    /\ fetches = << >>
    /\ AllChosen(formData)
    /\ bookedSlots = << >>
    /\ ~checkingAvailability
    /\ CurrentInfeasible # << >>
    /\ \E k \in 1..Len(bookings) :
          /\ bookings[k].workspace_type = formData.workspaceType
          /\ bookings[k].date = formData.date
          /\ bookings[k].status \in QueriedStatuses

\* ---------------------------------------------------------------- C25
\* C25: checkingAvailability is false only when no availability check is in
\* flight, and once every check has completed, bookedSlots is the infeasible
\* set of the form's current workspace type, date and duration, whatever the
\* order in which overlapping checks completed.
C25_OverlappingChecksSettleOnCurrent ==
    /\ ~checkingAvailability => fetches = << >>
    /\ (fetches = << >> /\ AllChosen(formData)) => bookedSlots = CurrentInfeasible

\* ---------------------------------------------------------------- C30
\* a change event of the named field has just been processed
Changed(name) == pc' = name /\ formData' # formData

\* C30: after handleChange processes a change of workspaceType, date or
\* duration the selected timeSlot is empty, and a change of any other field
\* leaves timeSlot, workspaceType, date and duration unchanged.
C30_OtherFieldsLeaveTheFour ==
    [][ /\ (\E name \in DependencyFields : Changed(name))
            => formData'.timeSlot = ""
        /\ (\E name \in FieldNames \ DependencyFields : Changed(name))
            => /\ formData'.timeSlot = formData.timeSlot
               /\ formData'.workspaceType = formData.workspaceType
               /\ formData'.date = formData.date
               /\ formData'.duration = formData.duration ]_vars

\* C30, with the time slot's own change set apart: after a change of
\* workspaceType, date or duration the selected timeSlot is empty; a change of
\* timeSlot leaves workspaceType, date and duration unchanged; a change of any
\* other field leaves timeSlot, workspaceType, date and duration unchanged.
C30_DependencyChangeClearsTimeSlot ==
    [][ /\ (\E name \in DependencyFields : Changed(name))
            => formData'.timeSlot = ""
        /\ Changed("timeSlot")
            => /\ formData'.workspaceType = formData.workspaceType
               /\ formData'.date = formData.date
               /\ formData'.duration = formData.duration
        /\ (\E name \in FieldNames \ (DependencyFields \cup { "timeSlot" }) :
                Changed(name))
            => /\ formData'.timeSlot = formData.timeSlot
               /\ formData'.workspaceType = formData.workspaceType
               /\ formData'.date = formData.date
               /\ formData'.duration = formData.duration ]_vars

\* the date was changed last: workspace type, date and duration are all
\* chosen, a customer is named, and no time slot is selected
C30_Witness ==
    /\ pc = "date"
    /\ AllChosen(formData)
    /\ formData.customerName # ""
    /\ formData.timeSlot = ""

\* ---------------------------------------------------------------- C22
\* an active reservation: neither rejected nor cancelled
Active(row) == row.status \notin { "rejected", "cancelled" }

\* the active reservations of a table for a workspace type and date that
\* cover a slot
CoveringRows(table, call, slot) ==
    { k \in 1..Len(table) :
        /\ table[k].workspace_type = call.workspaceType
        /\ table[k].date = call.date
        /\ Active(table[k])
        /\ InGrid(slot)
        /\ PositionOf(slot) \in ReservedPositions(table[k]) }

\* the desks no active reservation of a table blocks at a slot
FreeDesksAt(table, call, slot) ==
    { d \in Desks :
        \A k \in CoveringRows(table, call, slot) : d \notin BlockedDesks(table[k]) }

\* both clients read the same table, both were offered the same start slot for
\* the same workspace type and date while one desk was left at it, both
\* submitted, and both calls of createAdminBooking have come back, with every
\* row stored since then active
RacedOn(slot) ==
    /\ \A c \in Clients :
         /\ clients[c].stage = "inserted"
         /\ clients[c].formData.timeSlot = slot
         /\ ~includes(clients[c].bookedSlots, slot)
    /\ clients[1].snapshot = clients[2].snapshot
    /\ clients[1].formData.workspaceType = clients[2].formData.workspaceType
    /\ clients[1].formData.date = clients[2].formData.date
    /\ Cardinality(FreeDesksAt(clients[1].snapshot,
                               CallOf(clients[1].formData), slot)) = 1
    /\ \A k \in (Len(clients[1].snapshot) + 1)..Len(bookings) : Active(bookings[k])

\* C22: when two clients have read the same reservation snapshot, have both
\* found the same start slot feasible on the last free desk and have both
\* submitted, the store ends with more active reservations on that slot than
\* there are desks.
C22_CheckThenActRace ==
    \A slot \in Range(hourlySlots) :
        RacedOn(slot) =>
            Cardinality(CoveringRows(bookings, CallOf(clients[1].formData), slot))
                > totalDesks

\* the race has happened on the first slot: two active bookings on one desk
C22_Witness ==
    /\ RacedOn(SlotAt(0))
    /\ Cardinality(CoveringRows(bookings, CallOf(clients[1].formData), SlotAt(0)))
           > totalDesks
    /\ Len(bookings) = Len(clients[1].snapshot) + 2

=============================================================================
